---- MODULE Spec2Model ----
(***************************************************************************)
(* Model of the HTTP gateway of src/main.go: database start-up (initDB),   *)
(* the /health, /signup, /signin and /itinerary handlers, the users table  *)
(* they act on and the database they reach.                                *)
(***************************************************************************)
EXTENDS Naturals, Sequences, FiniteSets, TLC

\* ------------------------------------------------------------- bounds
NumWorkers == 2

\* ------------------------------------------------- program constants
MaxAttempts == 5
HealthTimeout == 5
DefaultCost == 10

Workers == 1..NumWorkers
Salts == {"salt1"}

\* --------------------------------------------------------- input sets
EnvNames == {"DB_USER", "DB_PASS", "DB_NAME", "DB_HOST"}
\* Every variable set, or exactly one of them missing.
Environments ==
    {e \in [EnvNames -> {"", "set"}] : Cardinality({n \in EnvNames : e[n] = ""}) <= 1}
Usernames == {"", "alice", "bob"}
Passwords == {"", "pw1", "pw2"}
DbModes == {"up", "down", "hang"}

VARIABLES
    environ,    \* the process environment read by os.Getenv
    pc,         \* position of main: "initDB", "ping", "sleep", "initDone", "serving"
    db,         \* the package variable db: "nil" or "open"
    i,          \* loop counter of the ping loop of initDB
    err,        \* the variable err of initDB: "nil" or the last ping error
    pings,      \* number of db.Ping() calls made by initDB
    sleeps,     \* number of time.Sleep calls made by the ping loop
    pinged,     \* whether a db.Ping() of initDB has succeeded
    dbMode,     \* the database as the network shows it: up, down (refuses), hang (silent)
    users,      \* rows of the users table
    signupPw,   \* for each username with a row, the password its signup request gave
    created,    \* <<username, password>> pairs whose signup was answered 200
    okSignups,  \* for each username, the number of signups answered 200
    workers,    \* per request worker: the handler's position and locals
    last        \* the most recent exchange completed by a handler

vars == <<environ, pc, db, i, err, pings, sleeps, pinged, dbMode, users, signupPw,
          created, okSignups, workers, last>>

startup == <<environ, pc, db, i, err, pings, sleeps, pinged>>
table == <<users, signupPw, created, okSignups>>

\* ------------------------------------------------------------ values
\* Error texts of the backend (driver, context, upstream); "nil" is Go's nil error.
ErrRefused == "dial tcp: connect: connection refused"
ErrDeadline == "context deadline exceeded"
ErrDuplicate == "pq: duplicate key value violates unique constraint"
ErrNoRows == "sql: no rows in result set"
ErrRand == "crypto/rand: read failed"
ErrNilDB == "runtime error: invalid memory address or nil pointer dereference"
BackendErrors == {ErrRefused, ErrDeadline, ErrDuplicate, ErrNoRows, ErrRand, ErrNilDB}

\* A value of the text column users.password.
Text(s) == [text |-> s]
NoHash == Text("")

\* A response body: a JSON object of string members; the empty object is what
\* gin's Recovery leaves after a panic.
EmptyBody == [k \in {} |-> ""]

IdleWorker ==
    [pc |-> "idle", username |-> "", password |-> "", hash |-> NoHash, elapsed |-> 0]

JNull == [jt |-> "null"]

NoExchange ==
    [op |-> "none", missing |-> FALSE, status |-> 0, body |-> EmptyBody,
     fault |-> "nil", hashCalls |-> 0, storeCalls |-> 0, known |-> FALSE,
     rowFound |-> FALSE, reachable |-> TRUE, waited |-> 0,
     inbound |-> JNull, sent |-> FALSE, forwarded |-> JNull]

\* ------------------------------------------------------------- state
Init ==
    /\ environ \in Environments
    /\ pc = "initDB"
    /\ db = "nil"
    /\ i = 0
    /\ err = "nil"
    /\ pings = 0
    /\ sleeps = 0
    /\ pinged = FALSE
    /\ dbMode \in DbModes
    /\ users = {}
    /\ signupPw = [u \in Usernames |-> ""]
    /\ created = {}
    /\ okSignups = [u \in Usernames |-> 0]
    /\ workers = [w \in Workers |-> IdleWorker]
    /\ last = NoExchange

\* --------------------------------------------------------- the database
\* The network: the database comes up, refuses connections or falls silent.
DbChange ==
    /\ \E m \in DbModes \ {dbMode} : dbMode' = m
    /\ UNCHANGED <<startup, table, workers, last>>

\* db.Ping() / db.PingContext once the database has answered (mode is not "hang").
pingResult(mode) == IF mode = "up" THEN "nil" ELSE ErrRefused

\* ------------------------------------------------------------- initDB
envMissing(e) == \E n \in EnvNames : e[n] = ""

\* initDB up to the ping loop: the environment check and sql.Open.
InitDBOpen ==
    /\ pc = "initDB"
    /\ IF envMissing(environ)
          THEN /\ pc' = "initDone"
               /\ db' = db
          ELSE /\ pc' = "ping"
               /\ db' = "open"
    /\ i' = 0
    /\ UNCHANGED <<environ, err, pings, sleeps, pinged, dbMode, table, workers, last>>

\* One db.Ping() of the loop; the call has no deadline and returns only when
\* the database answers or refuses.
InitDBPing ==
    /\ pc = "ping"
    /\ i < MaxAttempts
    /\ dbMode # "hang"
    /\ err' = pingResult(dbMode)
    /\ pings' = pings + 1
    /\ pinged' = (err' = "nil")
    /\ pc' = IF err' = "nil" THEN "initDone" ELSE "sleep"
    /\ UNCHANGED <<environ, db, i, sleeps, dbMode, table, workers, last>>

\* time.Sleep after a failed attempt, then i++ and the loop test.
InitDBSleep ==
    /\ pc = "sleep"
    /\ sleeps' = sleeps + 1
    /\ i' = i + 1
    /\ pc' = IF i + 1 < MaxAttempts THEN "ping" ELSE "initDone"
    /\ UNCHANGED <<environ, db, err, pings, pinged, dbMode, table, workers, last>>

\* What main does when initDB has returned.
afterInitDB(handle, e) == "serving"

\* main after initDB: the router is built and r.Run starts serving. The locals
\* of initDB (i, err) and the counts kept of its loop end with its return.
MainRun ==
    /\ pc = "initDone"
    /\ pc' = afterInitDB(db, err)
    /\ i' = 0
    /\ err' = "nil"
    /\ pings' = 0
    /\ sleeps' = 0
    /\ UNCHANGED <<environ, db, pinged, dbMode, table, workers, last>>

\* ------------------------------------------------------------- bcrypt
\* The digest bcrypt derives from a password under a salt and a cost, as a
\* term: equal exactly when salt, cost and password are equal.
bcryptDigest(password, cost, salt) == <<"bcrypt", cost, salt, password>>

\* The encoded hash "$2a$<cost>$<salt><digest>".
encodeHash(password, cost, salt) ==
    [alg |-> "2a", cost |-> cost, salt |-> salt,
     digest |-> bcryptDigest(password, cost, salt)]

\* bcrypt.GenerateFromPassword: a fresh salt from crypto/rand, or its failure.
GenerateFromPassword(password, cost) ==
    {[err |-> "nil", hash |-> encodeHash(password, cost, s)] : s \in Salts}
        \cup {[err |-> ErrRand, hash |-> NoHash]}

\* A comparison of the stored value with the password itself.
comparePlain(hash, password) == hash = Text(password)

\* bcrypt.CompareHashAndPassword = nil: the stored value parses as a hash and
\* the digest of the password under the stored salt and cost is the stored one.
CompareHashAndPassword(hash, password) ==
    /\ DOMAIN hash = {"alg", "cost", "salt", "digest"}
    /\ hash.digest = bcryptDigest(password, hash.cost, hash.salt)

\* -------------------------------------------------------- users table
\* The unique constraint on users.username.
uniqueViolation(rows, username) == \E r \in rows : r.username = username

\* db.Exec("INSERT INTO users (username, password) VALUES ($1, $2)") against a
\* database that answers: the error, and the rows of the table afterwards.
execInsert(rows, mode, username, password) ==
    IF mode # "up"
       THEN [err |-> ErrRefused, rows |-> rows]
       ELSE IF uniqueViolation(rows, username)
               THEN [err |-> ErrDuplicate, rows |-> rows]
               ELSE [err |-> "nil",
                     rows |-> rows \cup {[username |-> username, password |-> password]}]

\* db.QueryRow("SELECT password FROM users WHERE username=$1").Scan(&hash)
\* against a database that answers.
queryRowScan(rows, mode, username) ==
    IF mode # "up"
       THEN [err |-> ErrRefused, hash |-> NoHash]
       ELSE IF \E r \in rows : r.username = username
               THEN [err |-> "nil",
                     hash |-> (CHOOSE r \in rows : r.username = username).password]
               ELSE [err |-> ErrNoRows, hash |-> NoHash]

\* ------------------------------------------------------- request inputs
\* A /signup or /signin body: one ShouldBindJSON rejects, or a User.
BadBody == [bindOk |-> FALSE, username |-> "", password |-> ""]
UserRequests ==
    {BadBody} \cup
    {[bindOk |-> TRUE, username |-> u, password |-> p] : u \in Usernames, p \in Passwords}

\* A check that forgets the password.
usernameMissing(req) == req.username = ""

\* The check of both handlers for an empty username or password.
credentialsMissing(req) == req.username = "" \/ req.password = ""

\* An exchange: the answer, and whether the request bound to a User with an
\* empty username or password.
Answer(op, req, status, body) ==
    [NoExchange EXCEPT !.op = op, !.status = status, !.body = body,
                       !.missing = req.bindOk /\ (req.username = "" \/ req.password = "")]

\* What the router answers when a handler panics (gin.Default's Recovery).
Recovered(op, req) == [Answer(op, req, 500, EmptyBody) EXCEPT !.fault = ErrNilDB]

Rejected(op, req) ==
    IF ~req.bindOk
       THEN Answer(op, req, 400, [error |-> "invalid request body"])
       ELSE Answer(op, req, 400, [error |-> "username and password required"])

\* ------------------------------------------------------- signupHandler
\* The password itself passed for the password column.
plainPassword(req, hash) == Text(req.password)

\* The value signupHandler passes for the password column.
passwordColumn(req, hash) == hash

\* An answer that drops the error of db.Exec.
signupAnswerIgnoresError(req, e) ==
    [NoExchange EXCEPT !.op = "signup", !.status = 200,
                       !.body = [message |-> "user created"]]

\* The answer of signupHandler after db.Exec returned e.
signupAnswer(req, e) ==
    IF e # "nil"
       THEN [Answer("signup", req, 500, [error |-> "failed to create user"])
                EXCEPT !.fault = e]
       ELSE Answer("signup", req, 200, [message |-> "user created"])

\* signupHandler up to db.Exec: binding, the empty-field check, the hash.
SignupHash(w, req) ==
    /\ pc = "serving"
    /\ workers[w].pc = "idle"
    /\ IF ~req.bindOk \/ credentialsMissing(req)
          THEN /\ last' = Rejected("signup", req)
               /\ workers' = workers
          ELSE \E g \in GenerateFromPassword(req.password, DefaultCost) :
                  IF g.err # "nil"
                     THEN /\ last' = [Answer("signup", req, 500,
                                             [error |-> "failed to hash password"])
                                         EXCEPT !.fault = g.err, !.hashCalls = 1]
                          /\ workers' = workers
                     ELSE /\ workers' = [workers EXCEPT ![w] =
                                 [pc |-> "hashed", username |-> req.username,
                                  password |-> req.password, hash |-> g.hash,
                                  elapsed |-> 0]]
                          /\ last' = last
    /\ UNCHANGED <<startup, dbMode, table>>

\* signupHandler from db.Exec on: the insert and the answer. db.Exec on a nil
\* handle panics; with no deadline it returns only when the database answers.
SignupExec(w) ==
    /\ pc = "serving"
    /\ workers[w].pc = "hashed"
    /\ db = "nil" \/ dbMode # "hang"
    /\ LET req == [bindOk |-> TRUE, username |-> workers[w].username,
                   password |-> workers[w].password]
           r == execInsert(users, dbMode, req.username,
                           passwordColumn(req, workers[w].hash))
       IN  IF db = "nil"
              THEN /\ last' = [Recovered("signup", req) EXCEPT !.hashCalls = 1]
                   /\ UNCHANGED <<table>>
              ELSE /\ last' = [signupAnswer(req, r.err) EXCEPT
                                  !.hashCalls = 1, !.storeCalls = 1,
                                  !.rowFound = uniqueViolation(users, req.username)]
                   /\ users' = r.rows
                   /\ signupPw' = IF r.err = "nil"
                                     THEN [signupPw EXCEPT ![req.username] = req.password]
                                     ELSE signupPw
                   /\ IF last'.status = 200
                         THEN /\ created' = created \cup {<<req.username, req.password>>}
                              /\ okSignups' = [okSignups EXCEPT ![req.username] = @ + 1]
                         ELSE UNCHANGED <<created, okSignups>>
    /\ workers' = [workers EXCEPT ![w] = IdleWorker]
    /\ UNCHANGED <<startup, dbMode>>

\* ------------------------------------------------------- signinHandler
\* An answer that tells a missing row from a wrong password.
signinAnswerNamesUnknownUser(req, e, hash) ==
    [NoExchange EXCEPT
        !.op = "signin",
        !.status = IF e = "nil" /\ hash.digest = bcryptDigest(req.password, hash.cost, hash.salt)
                      THEN 200 ELSE 401,
        !.body = IF e = ErrNoRows THEN [error |-> "user not found"]
                 ELSE IF e = "nil" /\ hash.digest = bcryptDigest(req.password, hash.cost, hash.salt)
                         THEN [message |-> "login success"]
                         ELSE [error |-> "invalid username or password"]]

\* The answer of signinHandler after the lookup returned e and hash.
signinAnswer(req, e, hash) ==
    IF e # "nil"
       THEN [Answer("signin", req, 401, [error |-> "invalid username or password"])
                EXCEPT !.fault = IF e = ErrNoRows THEN "nil" ELSE e]
       ELSE IF ~CompareHashAndPassword(hash, req.password)
               THEN Answer("signin", req, 401, [error |-> "invalid username or password"])
               ELSE Answer("signin", req, 200, [message |-> "login success"])

\* signinHandler on the state as it is; db.QueryRow on a nil handle panics.
signinHandler(req) ==
    IF ~req.bindOk \/ credentialsMissing(req)
       THEN Rejected("signin", req)
       ELSE IF db = "nil"
               THEN Recovered("signin", req)
               ELSE LET q == queryRowScan(users, dbMode, req.username)
                    IN  [signinAnswer(req, q.err, q.hash) EXCEPT
                            !.storeCalls = 1,
                            !.rowFound = uniqueViolation(users, req.username),
                            !.known = <<req.username, req.password>> \in created]

\* Whether signinHandler answers: the lookup has no deadline and waits for a
\* silent database.
signinReturns(req) ==
    \/ ~req.bindOk
    \/ credentialsMissing(req)
    \/ db = "nil"
    \/ dbMode # "hang"

Signin(req) ==
    /\ pc = "serving"
    /\ signinReturns(req)
    /\ last' = signinHandler(req)
    /\ UNCHANGED <<startup, dbMode, table, workers>>

\* ------------------------------------------------------- GET /health
NoRequest == [bindOk |-> TRUE, username |-> "", password |-> ""]

\* A context without a deadline.
noDeadline(elapsed) == FALSE

\* Whether the context of context.WithTimeout(..., 5*time.Second) is done after
\* the handler has waited for elapsed seconds.
deadlineExceeded(elapsed) == elapsed >= HealthTimeout

\* The answer of the health handler after db.PingContext returned e.
healthAnswer(e) ==
    IF e # "nil"
       THEN [Answer("health", NoRequest, 503,
                    [status |-> "database connection failed", error |-> e])
                EXCEPT !.fault = e]
       ELSE Answer("health", NoRequest, 200, [status |-> "ok"])

\* The health handler up to db.PingContext: the nil check, the context.
HealthBegin(w) ==
    /\ pc = "serving"
    /\ workers[w].pc = "idle"
    /\ IF db = "nil"
          THEN /\ last' = [Answer("health", NoRequest, 503,
                                  [status |-> "database not connected"])
                              EXCEPT !.reachable = (dbMode = "up")]
               /\ workers' = workers
          ELSE /\ workers' = [workers EXCEPT ![w] = [IdleWorker EXCEPT !.pc = "pinging"]]
               /\ last' = last
    /\ UNCHANGED <<startup, dbMode, table>>

\* db.PingContext returns because the database answered or refused.
HealthPing(w) ==
    /\ workers[w].pc = "pinging"
    /\ dbMode # "hang"
    /\ last' = [healthAnswer(pingResult(dbMode)) EXCEPT
                   !.reachable = (dbMode = "up"), !.waited = workers[w].elapsed]
    /\ workers' = [workers EXCEPT ![w] = IdleWorker]
    /\ UNCHANGED <<startup, dbMode, table>>

\* The seconds of the timeout pass while db.PingContext waits.
HealthTick(w) ==
    /\ workers[w].pc = "pinging"
    /\ workers[w].elapsed < HealthTimeout
    /\ workers' = [workers EXCEPT ![w].elapsed = HealthTimeout]
    /\ UNCHANGED <<startup, dbMode, table, last>>

\* db.PingContext returns because its context is done.
HealthDeadline(w) ==
    /\ workers[w].pc = "pinging"
    /\ deadlineExceeded(workers[w].elapsed)
    /\ last' = [healthAnswer(ErrDeadline) EXCEPT
                   !.reachable = (dbMode = "up"), !.waited = workers[w].elapsed]
    /\ workers' = [workers EXCEPT ![w] = IdleWorker]
    /\ UNCHANGED <<startup, dbMode, table>>

\* ------------------------------------------------------------- JSON
JStr(s) == [jt |-> "string", s |-> s]
JNum(n) == [jt |-> "number", n |-> n]
JArr(items) == [jt |-> "array", items |-> items]
JObj(fields) == [jt |-> "object", fields |-> fields]
Malformed == [jt |-> "malformed"]

AllOk(results) == \A k \in DOMAIN results : results[k].ok

\* encoding/json into a string, an int, a []string: null leaves the zero value,
\* a value of another JSON type is an error.
decodeString(v) ==
    IF v.jt = "string" THEN [ok |-> TRUE, val |-> v.s]
    ELSE [ok |-> v.jt = "null", val |-> ""]

decodeInt(v) ==
    IF v.jt = "number" THEN [ok |-> TRUE, val |-> v.n]
    ELSE [ok |-> v.jt = "null", val |-> 0]

decodeStrings(v) ==
    IF v.jt = "array"
       THEN LET rs == [k \in 1..Len(v.items) |-> decodeString(v.items[k])]
            IN  [ok |-> AllOk(rs),
                 val |-> [isNil |-> FALSE, elems |-> [k \in 1..Len(v.items) |-> rs[k].val]]]
       ELSE [ok |-> v.jt = "null", val |-> [isNil |-> TRUE, elems |-> <<>>]]

\* The member of a JSON object the decoder hands to a struct field; members
\* the struct has no field for are skipped.
member(fields, key) == IF key \in DOMAIN fields THEN fields[key] ELSE JNull

\* encoding/json into an AirportInfo.
decodeAirportInfo(v) ==
    IF v.jt = "object"
       THEN LET a == decodeString(member(v.fields, "airport"))
                d == decodeString(member(v.fields, "date"))
                t == decodeString(member(v.fields, "time"))
            IN  [ok |-> a.ok /\ d.ok /\ t.ok,
                 val |-> [Airport |-> a.val, Date |-> d.val, Time |-> t.val]]
       ELSE [ok |-> v.jt = "null", val |-> [Airport |-> "", Date |-> "", Time |-> ""]]

\* encoding/json into a Traveler and into a []Traveler.
decodeTraveler(v) ==
    IF v.jt = "object"
       THEN LET n == decodeString(member(v.fields, "name"))
                a == decodeInt(member(v.fields, "age"))
            IN  [ok |-> n.ok /\ a.ok, val |-> [Name |-> n.val, Age |-> a.val]]
       ELSE [ok |-> v.jt = "null", val |-> [Name |-> "", Age |-> 0]]

decodeTravelers(v) ==
    IF v.jt = "array"
       THEN LET rs == [k \in 1..Len(v.items) |-> decodeTraveler(v.items[k])]
            IN  [ok |-> AllOk(rs),
                 val |-> [isNil |-> FALSE, elems |-> [k \in 1..Len(v.items) |-> rs[k].val]]]
       ELSE [ok |-> v.jt = "null", val |-> [isNil |-> TRUE, elems |-> <<>>]]

\* c.ShouldBindJSON(&requestBody) for an ItineraryRequest.
bindItineraryRequest(body) ==
    LET f == IF body.jt = "object" THEN body.fields ELSE EmptyBody
        c == decodeStrings(member(f, "countries"))
        a == decodeAirportInfo(member(f, "arrival"))
        d == decodeAirportInfo(member(f, "departure"))
        t == decodeTravelers(member(f, "travelers"))
    IN  [ok |-> body.jt \in {"object", "null"} /\ c.ok /\ a.ok /\ d.ok /\ t.ok,
         val |-> [Countries |-> c.val, Arrival |-> a.val, Departure |-> d.val,
                  Travelers |-> t.val]]

\* json.Marshal of the struct: every field is written, a nil slice as null.
marshalStrings(x) ==
    IF x.isNil THEN JNull
    ELSE JArr([k \in 1..Len(x.elems) |-> JStr(x.elems[k])])

marshalAirportInfo(x) ==
    JObj([airport |-> JStr(x.Airport), date |-> JStr(x.Date), time |-> JStr(x.Time)])

marshalTravelers(x) ==
    IF x.isNil THEN JNull
    ELSE JArr([k \in 1..Len(x.elems) |->
                  JObj([name |-> JStr(x.elems[k].Name), age |-> JNum(x.elems[k].Age)])])

marshalItineraryRequest(r) ==
    JObj([countries |-> marshalStrings(r.Countries),
          arrival |-> marshalAirportInfo(r.Arrival),
          departure |-> marshalAirportInfo(r.Departure),
          travelers |-> marshalTravelers(r.Travelers)])

\* ------------------------------------------------ handleItineraryRequest
Arrive == JObj([airport |-> JStr("CGK"), date |-> JStr("2025-07-01"), time |-> JStr("09:00")])
Depart == JObj([airport |-> JStr("DPS"), date |-> JStr("2025-07-08"), time |-> JStr("18:00")])
Budi == JObj([name |-> JStr("Budi"), age |-> JNum(30)])

\* Inbound bodies: a complete request, one with a member the struct does not
\* have, one with members left out, the empty object, one whose countries is
\* a string, and text that is not JSON.
ItineraryBodies ==
    { JObj([countries |-> JArr(<<JStr("ID")>>), arrival |-> Arrive,
            departure |-> Depart, travelers |-> JArr(<<Budi>>)]),
      JObj([countries |-> JArr(<<JStr("ID")>>), arrival |-> Arrive,
            departure |-> Depart, travelers |-> JArr(<<Budi>>),
            budget |-> JNum(100)]),
      JObj([countries |-> JArr(<<JStr("ID")>>)]),
      JObj(EmptyBody),
      JObj([countries |-> JStr("ID")]),
      Malformed }

\* What client.Do returns: a transport error, or the upstream's status and body.
UpstreamResults ==
    { [err |-> "Post: dial tcp: i/o timeout", status |-> 0, body |-> EmptyBody],
      [err |-> "nil", status |-> 200, body |-> [itinerary |-> "3 days in Bali"]],
      [err |-> "nil", status |-> 422, body |-> [detail |-> "unprocessable"]] }

handleItineraryRequest(body, up) ==
    LET b == bindItineraryRequest(body)
        in == [NoExchange EXCEPT !.op = "itinerary", !.inbound = body]
    IN  IF ~b.ok
           THEN [in EXCEPT !.status = 400, !.body = [error |-> "json: cannot unmarshal"]]
           ELSE LET out == [in EXCEPT !.sent = TRUE,
                                      !.forwarded = marshalItineraryRequest(b.val)]
                IN  IF up.err # "nil"
                       THEN [out EXCEPT !.status = 500,
                                        !.body = [error |-> "Error sending request"]]
                       ELSE [out EXCEPT !.status = up.status, !.body = up.body]

Itinerary(body, up) ==
    /\ pc = "serving"
    /\ last' = handleItineraryRequest(body, up)
    /\ UNCHANGED <<startup, dbMode, table, workers>>

\* ------------------------------------------------------ specification
Next ==
    \/ DbChange
    \/ InitDBOpen
    \/ InitDBPing
    \/ InitDBSleep
    \/ MainRun
    \/ \E w \in Workers : \E req \in UserRequests : SignupHash(w, req)
    \/ \E w \in Workers : SignupExec(w)
    \/ \E req \in UserRequests : Signin(req)
    \/ \E w \in Workers : HealthBegin(w)
    \/ \E w \in Workers : HealthPing(w)
    \/ \E w \in Workers : HealthTick(w)
    \/ \E w \in Workers : HealthDeadline(w)
    \/ \E body \in ItineraryBodies : \E up \in UpstreamResults : Itinerary(body, up)

Spec == Init /\ [][Next]_vars

\* main with the handlers of /signup and /signin, the only ones that read or
\* write the users table.
AuthNext ==
    \/ DbChange
    \/ InitDBOpen
    \/ InitDBPing
    \/ InitDBSleep
    \/ MainRun
    \/ \E w \in Workers : \E req \in UserRequests : SignupHash(w, req)
    \/ \E w \in Workers : SignupExec(w)
    \/ \E req \in UserRequests : Signin(req)

AuthSpec == Init /\ [][AuthNext]_vars

\* main with the handler of /health, the two places that ping the database.
ProbeNext ==
    \/ DbChange
    \/ InitDBOpen
    \/ InitDBPing
    \/ InitDBSleep
    \/ MainRun
    \/ \E w \in Workers : HealthBegin(w)
    \/ \E w \in Workers : HealthPing(w)
    \/ \E w \in Workers : HealthTick(w)
    \/ \E w \in Workers : HealthDeadline(w)

\* The scheduler runs main and every handler that can take a step, and time
\* passes; the network and the database owe nothing.
ProbeSpec ==
    /\ Init
    /\ [][ProbeNext]_vars
    /\ WF_vars(InitDBOpen)
    /\ WF_vars(InitDBPing)
    /\ WF_vars(InitDBSleep)
    /\ WF_vars(MainRun)
    /\ \A w \in Workers : WF_vars(HealthPing(w))
    /\ \A w \in Workers : WF_vars(HealthTick(w))
    /\ \A w \in Workers : WF_vars(HealthDeadline(w))

\* -------------------------------------------------------------- claims
registered(u) == \E r \in users : r.username = u

\* C1, as stated: once signup(u, p) was answered 200, every later signin(u, p)
\* is answered 200.
C1_SigninAfterSignup ==
    (last.op = "signin" /\ last.known) => last.status = 200

\* C1, amended: once signup(u, p) was answered 200, every later signin(u, p)
\* whose lookup the database answers is answered 200 "login success".
C1_SigninAfterSignupWhenStoreAnswers ==
    (last.op = "signin" /\ last.known /\ last.fault = "nil")
        => (last.status = 200 /\ last.body = [message |-> "login success"])

C1_Witness ==
    /\ last.op = "signin"
    /\ last.known
    /\ last.status = 200
    /\ Cardinality(users) = 2

C3_Rows ==
    /\ \A r1, r2 \in users : r1.username = r2.username => r1 = r2
    /\ \A u \in Usernames : okSignups[u] <= 1
    /\ (last.op = "signup" /\ last.rowFound) => last.status # 200

C3_OneRowPerUsername ==
    /\ []C3_Rows
    /\ [][\A r \in users : r \in users']_vars

C3_Witness ==
    /\ last.op = "signup"
    /\ last.rowFound
    /\ last.status = 500
    /\ \E w \in Workers : /\ workers[w].pc = "hashed"
                          /\ registered(workers[w].username)

\* C4: requests are served only with a database handle that is non-nil and
\* was pinged successfully.
C4_ServesOnlyConnected ==
    pc = "serving" => (db # "nil" /\ pinged)

\* C5: a signup or signin with an empty username or password is answered 400
\* with no hashing and no store operation, and the table is left as it was.
C5_Rejected ==
    (last.op \in {"signup", "signin"} /\ last.missing) =>
        (last.status = 400 /\ last.hashCalls = 0 /\ last.storeCalls = 0)

C5_EmptyRejectedFirst ==
    /\ []C5_Rejected
    /\ [][(last'.op \in {"signup", "signin"} /\ last'.missing) => users' = users]_vars

C5_Witness ==
    /\ last.op = "signup"
    /\ last.missing
    /\ last.status = 400
    /\ users # {}

\* C6: the health endpoint never answers 200 for a database that is not
\* reachable, no health handler waits past its timeout, and every health
\* request that pings is answered.
C6_Unhealthy ==
    /\ (last.op = "health" /\ ~last.reachable) => last.status = 503
    /\ last.waited <= HealthTimeout
    /\ \A w \in Workers : workers[w].elapsed <= HealthTimeout

C6_HealthWithinTimeout ==
    /\ []C6_Unhealthy
    /\ \A w \in Workers : (workers[w].pc = "pinging") ~> (workers[w].pc = "idle")

C6_Witness ==
    /\ last.op = "health"
    /\ ~last.reachable
    /\ last.fault = ErrDeadline
    /\ last.status = 503
    /\ last.waited = HealthTimeout

\* C7: the password column of every row holds the hash of the password given
\* at signup, not the password, and the comparison accepts it for that
\* password; a signup whose hashing fails is answered 500 without an insert.
C7_StoredHash ==
    /\ \A r \in users :
          /\ r.password # Text(signupPw[r.username])
          /\ CompareHashAndPassword(r.password, signupPw[r.username])
    /\ (last.op = "signup" /\ last.fault = ErrRand) =>
          (last.status = 500 /\ last.storeCalls = 0)

C7_Witness ==
    /\ users # {}
    /\ last.op = "signup"
    /\ last.fault = ErrRand

\* C8: the answer to a request that hit an internal fault carries a fixed
\* message and never the text of the backend error.
C8_NoBackendText ==
    last.fault # "nil" => \A k \in DOMAIN last.body : last.body[k] \notin BackendErrors

\* C9: the body sent to the upstream service for a valid JSON body is the
\* inbound body.
C9_ForwardedUnchanged ==
    (last.op = "itinerary" /\ last.sent) => last.forwarded = last.inbound

\* C10: the ping loop of initDB makes at most 5 pings, sleeps after each
\* failed one, makes none after a successful one, ends connected when a ping
\* found the database up, and always terminates.
C10_Loop ==
    /\ pings <= MaxAttempts
    /\ pc \in {"ping", "initDone"} => sleeps = (IF pinged THEN pings - 1 ELSE pings)
    /\ pinged => pc \in {"initDone", "serving"}
    /\ (pinged /\ pc = "initDone") => err = "nil"

C10_StartupTerminates ==
    /\ []C10_Loop
    /\ <>(pc = "serving")

====
